---- MODULE Spec2Model ----
(***************************************************************************)
(* State-machine model of the shortest test runner                         *)
(* (packages/shortest/src/core/runner/index.ts): runTests, executeTestFile,*)
(* executeTest and runCachedTest.  executeTest is modelled with an explicit*)
(* call stack because the fallback branch of the replay path calls         *)
(* executeTest again.  User callbacks, the model client, the browser and   *)
(* the cache backend are external: each call of one of them is a           *)
(* nondeterministic choice among the outcomes the calling code handles.    *)
(* A second specification, AdapterSpec, models LLMAdapter.transformAndExecute*)
(* (the action-dispatch layer) on one descriptor.  A third, ParseSpec,      *)
(* models how executeTest reads the verdict out of the model's final reply.*)
(* A fourth, CliSpec, models the command line entry points: the construction*)
(* of the runner from the flags and the exit code of runTests.             *)
(***************************************************************************)
EXTENDS Integers, Sequences, FiniteSets, TLC

\* ------------------------------------------------------------------ bounds
NumFiles == 2
MaxTests == 2
\* longest final reply of the model, in tokens
MaxReply == 5

Files == 1..NumFiles

\* ------------------------------------------------------------- data model
\* TokenMetrics (index.ts 26-30)
ZeroUsage == [input |-> 0, output |-> 0]
\* token usage reported by one processAction call
RunUsage == [input |-> 3, output |-> 2]

\* one cached step: action.input.action, presence of action.input.coordinate,
\* extras.componentStr
Shot == [action |-> "screenshot", coordinate |-> FALSE, componentStr |-> ""]
Move(fp) == [action |-> "mouse_move", coordinate |-> TRUE, componentStr |-> fp]
Click(fp) == [action |-> "left_click", coordinate |-> TRUE, componentStr |-> fp]
TypeText == [action |-> "type", coordinate |-> FALSE, componentStr |-> ""]

\* UI fingerprints returned by getNormalizedComponentStringByCoords
Fingerprints == {"A", "B"}

\* CacheEntry: present = an entry exists for the test; hasSteps = data.steps
\* is defined
NoEntry == [present |-> FALSE, hasSteps |-> FALSE, steps |-> <<>>]
EntryOf(t) == [present |-> TRUE, hasSteps |-> TRUE, steps |-> t]
NoStepsEntry == [present |-> TRUE, hasSteps |-> FALSE, steps |-> <<>>]

TraceA == <<Shot, Move("A"), Click("A")>>
TraceB == <<TypeText, Shot, Move("B")>>

\* what a fresh run hands back as result.pendingCache: the trace it recorded
PendingCaches == {EntryOf(TraceA)}
\* what an entry left by an earlier run of the program can be
CacheValues == PendingCaches \cup {EntryOf(TraceB), NoStepsEntry, NoEntry}

\* the cache is durable across process runs: at the start of a run it is
\* empty, or holds what earlier runs left for the tests
InitialCaches ==
  { [k \in 1..MaxTests |-> NoEntry],
    [k \in 1..MaxTests |->
       IF k % 3 = 1 THEN EntryOf(TraceA)
       ELSE IF k % 3 = 2 THEN NoStepsEntry ELSE EntryOf(TraceB)] }

\* TestFunction, as far as executeTest reads it
NoTest == [directExecution |-> FALSE, hasBefore |-> FALSE, hasAfter |-> FALSE]
TestShapes ==
  { [directExecution |-> TRUE, hasBefore |-> FALSE, hasAfter |-> FALSE] }
  \cup { [directExecution |-> FALSE, hasBefore |-> b, hasAfter |-> a] :
           b \in BOOLEAN, a \in BOOLEAN }

\* TestResult (index.ts 32-38); reason is a sequence of text fragments
NoResult == [status |-> "none", reason |-> <<>>, tokenUsage |-> ZeroUsage]
Result(s, r, u) == [status |-> s, reason |-> r, tokenUsage |-> u]

BeforeMsg == <<"before hook error">>
AfterMsg == <<"after hook error">>
CallbackMsg == <<"callback error">>
ReplayedReason == <<"All actions successfully replayed from cache">>
NoStepsReason == <<"No steps to execute, running test in normal mode">>
DifferentUIReason ==
  <<"Component UI elements are different, running test in normal mode">>

\* the verdict object the model writes into its final text block
AIVerdicts ==
  { [status |-> "passed", reason |-> <<"ai pass reason">>],
    [status |-> "failed", reason |-> <<"ai fail reason">>],
    [status |-> "pending", reason |-> <<"ai other reason">>] }

\* the ways the AI layer fails in executeTest (index.ts 313-339)
AIErrors ==
  { "processAction threw",
    "AI processing failed: no result returned",
    "No test result found in AI response",
    "Invalid test result format",
    "JSON.parse: unexpected token" }

\* what escapes a file-level hook that throws (index.ts 398-427)
HookErrors ==
  { "beforeAll hook error", "beforeEach hook error",
    "afterEach hook error", "afterAll hook error" }

NoExc == "no exception"

\* registry.beforeAllFns, beforeEachFns, afterEachFns, afterAllFns: each hook
\* is named by the file whose import registered it
EmptyHooks ==
  [beforeAllFns |-> <<>>, beforeEachFns |-> <<>>,
   afterEachFns |-> <<>>, afterAllFns |-> <<>>]

\* the hooks a test file declares: none, or one of each kind
HookProfiles == {FALSE, TRUE}

\* the files that have a hook in the lists
Owners(reg) ==
  {reg.beforeAllFns[k] : k \in DOMAIN reg.beforeAllFns}
  \cup {reg.beforeEachFns[k] : k \in DOMAIN reg.beforeEachFns}
  \cup {reg.afterEachFns[k] : k \in DOMAIN reg.afterEachFns}
  \cup {reg.afterAllFns[k] : k \in DOMAIN reg.afterAllFns}

\* the import of file f runs its top-level declarations, which add the
\* file's hooks to the lists of the process-wide registry
Register(reg, f, declares) ==
  IF declares
  THEN [beforeAllFns |-> Append(reg.beforeAllFns, f),
        beforeEachFns |-> Append(reg.beforeEachFns, f),
        afterEachFns |-> Append(reg.afterEachFns, f),
        afterAllFns |-> Append(reg.afterAllFns, f)]
  ELSE reg

VARIABLES
  noCache,       \* this.noCache
  anthropicKey,  \* this.config.anthropicKey is set
  cache,         \* this.cache: cache key -> CacheEntry
  rpc,           \* position of runTests / executeTestFile
  fileIdx,       \* file of the for loop in runTests
  testIdx,       \* test of the for loop in executeTestFile
  tests,         \* registry.currentFileTests.length
  test,          \* the test of the loop in executeTestFile, as executeTest
                 \* reads it (directExecution, beforeFn, afterFn)
  browserOpen,   \* browserManager has a launched session
  testContext,   \* this.testContext is not null
  exc,           \* exception in flight in executeTestFile
  stack,         \* frames of executeTest
  lastResult,    \* testResult received by executeTestFile
  trail,         \* what the current top-level executeTest call did so far
  fileEnds,      \* statuses passed to reporter.onFileEnd by the
                 \* executeTestFile call in progress, or by the last one
                 \* when the next has not imported its file yet
  registry,      \* the hook lists of global.__shortest__.registry
  fileTrail,     \* what the executeTestFile call in progress did once its
                 \* file was imported (or the last call, until the next one
                 \* starts)
  launchFailed,  \* the files whose browser session could not be launched
                 \* and whose hooks are in the registry's lists
  response,      \* the ClaudeResponse handed to transformAndExecute
  apc,           \* position of transformAndExecute
  calls,         \* the operations of this.browser invoked so far
  outcome,       \* what transformAndExecute returned or threw
  reply,         \* the text of the model's final reply, as tokens
  ppc,           \* position in the parse of the reply (index.ts 319-339)
  parsed,        \* aiResult, or what the parse threw
  cliArgs,       \* process.argv.slice(2), the flags of the command line
  entryPoint,    \* the entry point that runs main()
  cpc,           \* position of main() and of the runTests it calls
  debugAI,       \* this.debugAI
  exitOnSuccess, \* this.exitOnSuccess
  testsCount,    \* the reporter's count of tests announced by onFileStart
  passedTestsCount, \* the reporter's count of passed verdicts
  outcomes,      \* what each executeTestFile call of the run did
  exitCode       \* the code handed to process.exit

vars == <<noCache, anthropicKey, cache, rpc, fileIdx, testIdx, tests, test,
          browserOpen, testContext, exc, stack, lastResult, trail, fileEnds,
          registry, fileTrail, launchFailed, response, apc, calls, outcome,
          reply, ppc, parsed, cliArgs, entryPoint, cpc, debugAI, exitOnSuccess,
          testsCount, passedTestsCount, outcomes, exitCode>>

\* the state of the adapter, and the state of the runner
adapter == <<response, apc, calls, outcome>>
parser == <<reply, ppc, parsed>>
cli == <<cliArgs, entryPoint, cpc, debugAI, exitOnSuccess, testsCount, passedTestsCount,
         outcomes, exitCode>>
runner == <<noCache, anthropicKey, cache, rpc, fileIdx, testIdx, tests, test,
            browserOpen, testContext, exc, stack, lastResult, trail, fileEnds,
            registry, fileTrail, launchFailed>>

\* -------------------------------------------------------------- helpers
Depth == Len(stack)
Top == stack[Depth]
CurKey == testIdx

Frame(cfgNoCache) ==
  [pc |-> "start", cfgNoCache |-> cfgNoCache, steps |-> <<>>, stepIdx |-> 0,
   result |-> NoResult, aiResult |-> NoResult, ret |-> NoResult]

SetTop(f) == [stack EXCEPT ![Depth] = f]

\* one entry of the trail: what was done (e), by the executeTest call at which
\* depth (d), on which replayed step (i), with which outcome (s)
Ev(e, i, s) == [e |-> e, d |-> Depth, i |-> i, s |-> s]
Log(evs) == trail' = trail \o evs

\* mutant: a callback that throws is not noticed
DirectResult_AlwaysPassed(ok) ==
  Result("passed", <<"Direct execution successful">>, ZeroUsage)

\* index.ts 172-189: the verdict of a direct execution
DirectResult(ok) ==
  IF ok
  THEN Result("passed", <<"Direct execution successful">>, ZeroUsage)
  ELSE Result("failed", CallbackMsg, ZeroUsage)

\* mutant: the per-call noCache option is not looked at
CacheEnabled_IgnoresConfig(cfgNoCache) == ~noCache

\* index.ts 259
CacheEnabled(cfgNoCache) == ~noCache /\ ~cfgNoCache

\* mutant: the screenshot steps are replayed too
ReplaySteps_KeepsAll(entry) == entry.steps

\* index.ts 493-498
ReplaySteps(entry) ==
  SelectSeq(entry.steps, LAMBDA s : s.action # "screenshot")

\* index.ts 510-514
NeedsFingerprint(step) == step.action = "mouse_move" /\ step.coordinate

\* mutant: no difference is ever seen
FingerprintDiffers_Never(live, step) == FALSE

\* mutant: the live fingerprint is compared with the wrong field of the step
FingerprintDiffers_WrongField(live, step) == live # step.action

\* index.ts 521
FingerprintDiffers(live, step) == live # step.componentStr

\* mutant: the reason is composed whatever the verdict was
AfterFailReason_Always(status, reason, msg) ==
  <<"AI: ">> \o reason \o <<", After: ">> \o msg

\* index.ts 272-279 and 349-356
AfterFailReason(status, reason, msg) ==
  IF status = "failed"
  THEN <<"AI: ">> \o reason \o <<", After: ">> \o msg
  ELSE msg

\* mutant: every verdict that is not a failure is stored
ShouldStore_NotFailed(status) == status # "failed"

\* index.ts 362
ShouldStore(status) == status = "passed"

\* index.ts 470-472 with 371-374: runTests goes on to the next file, whose
\* executeTestFile call starts by clearing the registry's tests; after the
\* last file the run ends (474-481)
NextFile ==
  /\ tests' = 0
  /\ testIdx' = 0
  /\ IF fileIdx < NumFiles
     THEN fileIdx' = fileIdx + 1 /\ rpc' = "load"
     ELSE fileIdx' = fileIdx /\ rpc' = "done"

RunnerFrame == <<adapter, parser, cli, noCache, anthropicKey, rpc, fileIdx, testIdx, tests, test,
                 browserOpen, testContext, fileEnds, registry, fileTrail,
                 launchFailed>>

\* one entry of the file trail: what was run (e), registered by which file
\* (o), for which test of the loop (t, 0 outside the loop), how it ended (s)
FileEv(e, o, t, s) == [e |-> e, o |-> o, t |-> t, s |-> s]

\* mutant: the body of the loop over a hook list is never entered
HookRuns_None(kind, fns, t) == { [events |-> <<>>, threw |-> FALSE] }

\* a for loop over one hook list (index.ts 398-400, 410-412, 419-421,
\* 425-427): the hooks run in list order; the first one that throws ends
\* the loop
HookRuns(kind, fns, t) ==
  { [events |-> [k \in 1..Len(fns) |-> FileEv(kind, fns[k], t, "ok")],
     threw |-> FALSE] }
  \cup { [events |-> [k \in 1..j |->
                       FileEv(kind, fns[k], t, IF k = j THEN "throw" ELSE "ok")],
          threw |-> TRUE] : j \in 1..Len(fns) }

\* mutant: the exception is not caught by executeTestFile and ends runTests
FileThrow_Escapes(msg) ==
  /\ exc' = msg
  /\ rpc' = "done"

\* an exception thrown inside the inner try block of executeTestFile
\* (index.ts 396-427): the finally block runs next
FileThrow(msg) ==
  /\ exc' = msg
  /\ rpc' = "finally"

\* an exception leaves executeTest: every frame is unwound (the nested call
\* sits in a catch block without handler of its own) and executeTestFile's
\* finally block runs next
Escape(msg) ==
  /\ stack' = <<>>
  /\ exc' = msg
  /\ rpc' = "finally"
  /\ trail' = <<>>
  /\ UNCHANGED <<adapter, parser, cli, noCache, anthropicKey, fileIdx, testIdx, tests, test,
                 browserOpen, testContext, fileEnds, lastResult, registry,
                 fileTrail, launchFailed>>

Running == rpc = "test" /\ Depth > 0

\* ------------------------------------------------------------ executeTest
\* index.ts 170-230: direct execution, the API key check, the first screenshot
ET_Begin ==
  /\ Running /\ Top.pc = "start"
  /\ IF test.directExecution
     THEN \E ok \in BOOLEAN :
            /\ stack' = SetTop([Top EXCEPT !.pc = "ret", !.ret = DirectResult(ok)])
            /\ Log(<<Ev("callback", 0, IF ok THEN "ok" ELSE "throw")>>)
     ELSE IF ~anthropicKey
     THEN /\ stack' = SetTop([Top EXCEPT !.pc = "ret", !.ret =
                 Result("failed", <<"ANTHROPIC_KEY is not set">>, ZeroUsage)])
          /\ Log(<<>>)
     ELSE /\ stack' = SetTop([Top EXCEPT !.pc = "cacheCheck"])
          /\ Log(<<Ev("screenshot", 0, "")>>)
  /\ UNCHANGED <<RunnerFrame, cache, exc, lastResult>>

\* index.ts 258-261: the hit check
ET_CacheCheck ==
  /\ Running /\ Top.pc = "cacheCheck"
  /\ IF CacheEnabled(Top.cfgNoCache)
     THEN \/ /\ stack' = SetTop([Top EXCEPT !.pc =
                   IF cache[CurKey].present THEN "replay" ELSE "before"])
             /\ Log(<<Ev("get", 0, IF cache[CurKey].present THEN "hit" ELSE "miss")>>)
             /\ UNCHANGED <<RunnerFrame, exc, lastResult>>
          \/ \* cache.get throws outside the try block
             /\ cache[CurKey].present
             /\ Escape("cache read error")
     ELSE /\ stack' = SetTop([Top EXCEPT !.pc = "before"])
          /\ Log(<<>>)
          /\ UNCHANGED <<RunnerFrame, exc, lastResult>>
  /\ UNCHANGED cache

\* index.ts 488-507: runCachedTest reads the entry and filters the steps
RC_Get ==
  /\ Running /\ Top.pc = "replay"
  /\ \/ /\ cache[CurKey].hasSteps
        /\ stack' = SetTop([Top EXCEPT !.pc = "replayStep", !.stepIdx = 1,
                                       !.steps = ReplaySteps(cache[CurKey])])
        /\ Log(<<Ev("get", 0, "steps")>>)
     \/ /\ ~cache[CurKey].hasSteps
        /\ stack' = SetTop([Top EXCEPT !.pc = "replayAfter", !.result =
               Result("failed", NoStepsReason, ZeroUsage)])
        /\ Log(<<Ev("get", 0, "nosteps")>>)
     \/ \* cache.get throws inside runCachedTest: caught at index.ts 285
        /\ stack' = SetTop([Top EXCEPT !.pc = "fallback"])
        /\ Log(<<Ev("get", 0, "throw")>>)
  /\ UNCHANGED <<RunnerFrame, cache, exc, lastResult>>

\* mutant: a step that throws ends the replay, as the fingerprint query does
RC_Step_ExecThrows ==
  /\ Running /\ Top.pc = "replayStep"
  /\ IF Top.stepIdx > Len(Top.steps)
     THEN /\ stack' = SetTop([Top EXCEPT !.pc = "replayAfter", !.result =
                 Result("passed", ReplayedReason, ZeroUsage)])
          /\ Log(<<>>)
     ELSE LET step == Top.steps[Top.stepIdx]
              i == Top.stepIdx
              exec(pre) ==
                \E ok \in BOOLEAN :
                  /\ stack' = SetTop(IF ok THEN [Top EXCEPT !.stepIdx = i + 1]
                                     ELSE [Top EXCEPT !.pc = "fallback"])
                  /\ Log(pre \o <<Ev("exec", i, IF ok THEN "ok" ELSE "throw")>>)
          IN IF NeedsFingerprint(step)
             THEN \/ \E live \in Fingerprints :
                       LET seen == Ev("fingerprint", i,
                                      IF live = step.componentStr THEN "same" ELSE "diff")
                       IN IF FingerprintDiffers(live, step)
                          THEN /\ stack' = SetTop([Top EXCEPT !.pc = "replayAfter",
                                      !.result = Result("failed", DifferentUIReason, ZeroUsage)])
                               /\ Log(<<seen>>)
                          ELSE exec(<<seen>>)
                  \/ \* the fingerprint query throws: caught at index.ts 285
                     /\ stack' = SetTop([Top EXCEPT !.pc = "fallback"])
                     /\ Log(<<Ev("fingerprint", i, "throw")>>)
             ELSE exec(<<>>)
  /\ UNCHANGED <<RunnerFrame, cache, exc, lastResult>>

\* index.ts 508-550: one iteration of the replay loop, or the loop's end
RC_Step ==
  /\ Running /\ Top.pc = "replayStep"
  /\ IF Top.stepIdx > Len(Top.steps)
     THEN /\ stack' = SetTop([Top EXCEPT !.pc = "replayAfter", !.result =
                 Result("passed", ReplayedReason, ZeroUsage)])
          /\ Log(<<>>)
     ELSE LET step == Top.steps[Top.stepIdx]
              i == Top.stepIdx
              exec(pre) ==
                \E ok \in BOOLEAN :
                  /\ stack' = SetTop([Top EXCEPT !.stepIdx = i + 1])
                  /\ Log(pre \o <<Ev("exec", i, IF ok THEN "ok" ELSE "throw")>>)
          IN IF NeedsFingerprint(step)
             THEN \/ \E live \in Fingerprints :
                       LET seen == Ev("fingerprint", i,
                                      IF live = step.componentStr THEN "same" ELSE "diff")
                       IN IF FingerprintDiffers(live, step)
                          THEN /\ stack' = SetTop([Top EXCEPT !.pc = "replayAfter",
                                      !.result = Result("failed", DifferentUIReason, ZeroUsage)])
                               /\ Log(<<seen>>)
                          ELSE exec(<<seen>>)
                  \/ \* the fingerprint query throws: caught at index.ts 285
                     /\ stack' = SetTop([Top EXCEPT !.pc = "fallback"])
                     /\ Log(<<Ev("fingerprint", i, "throw")>>)
             ELSE exec(<<>>)
  /\ UNCHANGED <<RunnerFrame, cache, exc, lastResult>>

\* mutant: a replay that ends drops the entry it replayed
ET_ReplayAfter_Invalidates ==
  /\ Running /\ Top.pc = "replayAfter"
  /\ IF test.hasAfter
     THEN \E ok \in BOOLEAN :
            /\ stack' = SetTop([Top EXCEPT !.pc = "ret", !.ret =
                 IF ok THEN [Top.result EXCEPT !.tokenUsage = ZeroUsage]
                 ELSE Result("failed",
                        AfterFailReason(Top.result.status, Top.result.reason, AfterMsg),
                        ZeroUsage)])
            /\ Log(<<Ev("after", 0, IF ok THEN "ok" ELSE "throw")>>)
     ELSE /\ stack' = SetTop([Top EXCEPT !.pc = "ret", !.ret =
                 [Top.result EXCEPT !.tokenUsage = ZeroUsage]])
          /\ Log(<<>>)
  /\ cache' = [cache EXCEPT ![CurKey] = NoEntry]
  /\ UNCHANGED <<RunnerFrame, exc, lastResult>>

\* index.ts 265-284: the after hook of the replay path and its return
ET_ReplayAfter ==
  /\ Running /\ Top.pc = "replayAfter"
  /\ IF test.hasAfter
     THEN \E ok \in BOOLEAN :
            /\ stack' = SetTop([Top EXCEPT !.pc = "ret", !.ret =
                 IF ok THEN [Top.result EXCEPT !.tokenUsage = ZeroUsage]
                 ELSE Result("failed",
                        AfterFailReason(Top.result.status, Top.result.reason, AfterMsg),
                        ZeroUsage)])
            /\ Log(<<Ev("after", 0, IF ok THEN "ok" ELSE "throw")>>)
     ELSE /\ stack' = SetTop([Top EXCEPT !.pc = "ret", !.ret =
                 [Top.result EXCEPT !.tokenUsage = ZeroUsage]])
          /\ Log(<<>>)
  /\ UNCHANGED <<RunnerFrame, cache, exc, lastResult>>

\* mutant: the nested call is made first, the entry and the page are reset
\* after it was started
ET_Fallback_CallFirst ==
  /\ Running /\ Top.pc = "fallback"
  /\ \/ /\ cache' = [cache EXCEPT ![CurKey] = NoEntry]
        /\ stack' = Append(SetTop([Top EXCEPT !.pc = "nested"]), Frame(TRUE))
        /\ Log(<<Ev("call", 0, ""), Ev("delete", 0, ""), Ev("goto", 0, "")>>)
        /\ UNCHANGED <<RunnerFrame, exc, lastResult>>
     \/ /\ UNCHANGED cache
        /\ Escape("cache delete error")
     \/ /\ cache' = [cache EXCEPT ![CurKey] = NoEntry]
        /\ Escape("page.goto error")

\* index.ts 285-294: the catch block: delete, reset the page, call
\* executeTest; cache.delete and page.goto are awaited inside the catch
\* block, so an error of either leaves executeTest before the call
ET_Fallback ==
  /\ Running /\ Top.pc = "fallback"
  /\ \/ /\ cache' = [cache EXCEPT ![CurKey] = NoEntry]
        /\ stack' = Append(SetTop([Top EXCEPT !.pc = "nested"]), Frame(TRUE))
        /\ Log(<<Ev("delete", 0, ""), Ev("goto", 0, ""), Ev("call", 0, "")>>)
        /\ UNCHANGED <<RunnerFrame, exc, lastResult>>
     \/ /\ UNCHANGED cache
        /\ Escape("cache delete error")
     \/ /\ cache' = [cache EXCEPT ![CurKey] = NoEntry]
        /\ Escape("page.goto error")

\* mutant: a failed before hook does not return, the after hook runs next
ET_Before_RunsAfter ==
  /\ Running /\ Top.pc = "before"
  /\ IF test.hasBefore
     THEN \E ok \in BOOLEAN :
            /\ stack' = SetTop(IF ok THEN [Top EXCEPT !.pc = "process"]
                 ELSE [Top EXCEPT !.pc = "after",
                         !.aiResult = Result("failed", BeforeMsg, ZeroUsage)])
            /\ Log(<<Ev("before", 0, IF ok THEN "ok" ELSE "throw")>>)
     ELSE /\ stack' = SetTop([Top EXCEPT !.pc = "process"])
          /\ Log(<<>>)
  /\ UNCHANGED <<RunnerFrame, cache, exc, lastResult>>

\* index.ts 298-310: the before hook
ET_Before ==
  /\ Running /\ Top.pc = "before"
  /\ IF test.hasBefore
     THEN \E ok \in BOOLEAN :
            /\ stack' = SetTop(IF ok THEN [Top EXCEPT !.pc = "process"]
                 ELSE [Top EXCEPT !.pc = "ret",
                         !.ret = Result("failed", BeforeMsg, ZeroUsage)])
            /\ Log(<<Ev("before", 0, IF ok THEN "ok" ELSE "throw")>>)
     ELSE /\ stack' = SetTop([Top EXCEPT !.pc = "process"])
          /\ Log(<<>>)
  /\ UNCHANGED <<RunnerFrame, cache, exc, lastResult>>

\* index.ts 312-339: the fresh run and the parse of its verdict
ET_Process ==
  /\ Running /\ Top.pc = "process"
  /\ \/ \E v \in AIVerdicts :
          /\ stack' = SetTop([Top EXCEPT !.pc = "after",
                 !.aiResult = Result(v.status, v.reason, RunUsage)])
          /\ Log(<<Ev("process", 0, v.status)>>)
          /\ UNCHANGED <<RunnerFrame, exc, lastResult>>
     \/ \E msg \in AIErrors : Escape(msg)
  /\ UNCHANGED cache

\* index.ts 341-366: the after hook, the store of the trace, the return
ET_After ==
  /\ Running /\ Top.pc = "after"
  /\ \E ok \in BOOLEAN, pending \in PendingCaches :
       LET hook == IF test.hasAfter
                   THEN <<Ev("after", 0, IF ok THEN "ok" ELSE "throw")>>
                   ELSE <<>>
       IN /\ test.hasAfter \/ ok
          /\ IF ~ok
             THEN /\ stack' = SetTop([Top EXCEPT !.pc = "ret", !.ret =
                         Result("failed",
                           AfterFailReason(Top.aiResult.status, Top.aiResult.reason, AfterMsg),
                           Top.aiResult.tokenUsage)])
                  /\ Log(hook)
                  /\ UNCHANGED cache
             ELSE /\ stack' = SetTop([Top EXCEPT !.pc = "ret", !.ret = Top.aiResult])
                  /\ IF ShouldStore(Top.aiResult.status)
                     THEN /\ cache' = [cache EXCEPT ![CurKey] = pending]
                          /\ Log(hook \o <<Ev("set", 0, "")>>)
                     ELSE /\ UNCHANGED cache
                          /\ Log(hook)
  /\ UNCHANGED <<RunnerFrame, exc, lastResult>>

\* a return of executeTest: to executeTestFile (index.ts 415), or to the
\* catch block of the calling executeTest, which drops the value (291-296)
ET_Return ==
  /\ Running /\ Top.pc = "ret"
  /\ Log(<<Ev("return", 0, Top.ret.status)>>)
  /\ IF Depth = 1
     THEN /\ stack' = <<>>
          /\ lastResult' = Top.ret
          /\ rpc' = "testEnd"
     ELSE /\ stack' = [SubSeq(stack, 1, Depth - 1) EXCEPT ![Depth - 1].pc = "before"]
          /\ UNCHANGED <<lastResult, rpc>>
  /\ UNCHANGED <<adapter, parser, cli, noCache, anthropicKey, cache, fileIdx, testIdx, tests, test,
                 browserOpen, testContext, exc, fileEnds, registry, fileTrail,
                 launchFailed>>

\* -------------------------------------------------------- executeTestFile
\* index.ts 370-379: the registry's tests are cleared and the file imported;
\* the import or the compilation may throw (442-454), after the file declared
\* its hooks or before
EF_Load ==
  /\ rpc = "load"
  /\ fileTrail' = <<>>
  /\ \E declares \in HookProfiles :
       /\ registry' = Register(registry, fileIdx, declares)
       /\ \/ \E n \in 1..MaxTests :
               /\ tests' = n
               /\ rpc' = "launch"
               /\ fileEnds' = <<>>
               /\ UNCHANGED <<exc, testContext, fileIdx, testIdx>>
          \/ /\ testContext' = FALSE
             /\ fileEnds' = <<"failed">>
             /\ NextFile
             /\ UNCHANGED exc
  /\ UNCHANGED <<adapter, parser, cli, noCache, anthropicKey, cache, browserOpen, test,
                 stack, lastResult, trail, launchFailed>>

\* index.ts 381-394
EF_Launch ==
  /\ rpc = "launch"
  /\ \/ /\ browserOpen' = TRUE
        /\ testContext' = TRUE
        /\ testIdx' = 1
        /\ rpc' = "beforeAll"
        /\ fileTrail' = Append(fileTrail, FileEv("launch", fileIdx, 0, "ok"))
        /\ UNCHANGED <<fileIdx, tests, launchFailed>>
     \/ \* browser initialization failed: return
        /\ fileTrail' = Append(fileTrail, FileEv("launch", fileIdx, 0, "throw"))
        /\ launchFailed' = IF fileIdx \in Owners(registry)
                           THEN launchFailed \cup {fileIdx}
                           ELSE launchFailed
        /\ NextFile
        /\ UNCHANGED <<browserOpen, testContext>>
  /\ UNCHANGED <<adapter, parser, cli, noCache, anthropicKey, cache, exc, stack, test,
                 lastResult, trail, fileEnds, registry>>

\* index.ts 397-405: the beforeAll hooks
EF_BeforeAll ==
  /\ rpc = "beforeAll"
  /\ \E r \in HookRuns("beforeAll", registry.beforeAllFns, 0) :
       /\ fileTrail' = fileTrail \o r.events
       /\ IF r.threw
          THEN FileThrow("beforeAll hook error")
          ELSE rpc' = "loop" /\ UNCHANGED exc
  /\ UNCHANGED <<adapter, parser, cli, noCache, anthropicKey, cache, fileIdx, testIdx, tests, test,
                 browserOpen, testContext, stack, lastResult, trail, fileEnds,
                 registry, launchFailed>>

\* index.ts 408-415: the beforeEach hooks, then the next test of the file is
\* handed to executeTest; after the last test the loop ends
EF_TestStart ==
  /\ rpc = "loop"
  /\ IF testIdx <= tests
     THEN \E r \in HookRuns("beforeEach", registry.beforeEachFns, testIdx) :
            IF r.threw
            THEN /\ fileTrail' = fileTrail \o r.events
                 /\ FileThrow("beforeEach hook error")
                 /\ UNCHANGED <<stack, trail, lastResult, test>>
            ELSE /\ fileTrail' = fileTrail \o r.events
                      \o <<FileEv("test", fileIdx, testIdx, "ok")>>
                 /\ test' \in TestShapes
                 /\ stack' = <<Frame(FALSE)>>
                 /\ trail' = <<>>
                 /\ lastResult' = NoResult
                 /\ rpc' = "test"
                 /\ UNCHANGED exc
     ELSE /\ rpc' = "afterAll"
          /\ UNCHANGED <<stack, trail, lastResult, test, exc, fileTrail>>
  /\ UNCHANGED <<adapter, parser, cli, noCache, anthropicKey, cache, fileIdx, testIdx, tests,
                 browserOpen, testContext, fileEnds, registry, launchFailed>>

\* index.ts 416-422: the verdict is reported, the afterEach hooks run
EF_TestEnd ==
  /\ rpc = "testEnd"
  /\ lastResult' = NoResult
  /\ trail' = <<>>
  /\ test' = NoTest
  /\ \E r \in HookRuns("afterEach", registry.afterEachFns, testIdx) :
       /\ fileTrail' = fileTrail \o r.events
       /\ IF r.threw
          THEN FileThrow("afterEach hook error") /\ UNCHANGED testIdx
          ELSE testIdx' = testIdx + 1 /\ rpc' = "loop" /\ UNCHANGED exc
  /\ UNCHANGED <<adapter, parser, cli, noCache, anthropicKey, cache, fileIdx, tests, browserOpen,
                 testContext, stack, fileEnds, registry, launchFailed>>

\* index.ts 424-427: the afterAll hooks
EF_AfterAll ==
  /\ rpc = "afterAll"
  /\ \E r \in HookRuns("afterAll", registry.afterAllFns, 0) :
       /\ fileTrail' = fileTrail \o r.events
       /\ IF r.threw
          THEN FileThrow("afterAll hook error")
          ELSE rpc' = "finally" /\ UNCHANGED exc
  /\ UNCHANGED <<adapter, parser, cli, noCache, anthropicKey, cache, fileIdx, testIdx, tests, test,
                 browserOpen, testContext, stack, lastResult, trail, fileEnds,
                 registry, launchFailed>>

\* mutant: the finally block does not close the browser session
EF_Finally_LeavesOpen ==
  /\ rpc = "finally"
  /\ testContext' = FALSE
  /\ registry' = EmptyHooks
  /\ fileTrail' = fileTrail
  /\ fileEnds' = <<"passed">> \o (IF exc # NoExc THEN <<"failed">> ELSE <<>>)
  /\ exc' = NoExc
  /\ test' = NoTest
  /\ NextFile
  /\ launchFailed' = {}
  /\ UNCHANGED <<adapter, parser, cli, noCache, anthropicKey, cache, stack, lastResult, trail,
                 browserOpen>>

\* mutant: the finally and catch blocks leave the shared test context as it is
EF_Finally_KeepsContext ==
  /\ rpc = "finally"
  /\ browserOpen' = FALSE
  /\ testContext' = testContext
  /\ registry' = EmptyHooks
  /\ fileTrail' = Append(fileTrail, FileEv("close", fileIdx, 0, "ok"))
  /\ fileEnds' = <<"passed">> \o (IF exc # NoExc THEN <<"failed">> ELSE <<>>)
  /\ exc' = NoExc
  /\ test' = NoTest
  /\ NextFile
  /\ launchFailed' = {}
  /\ UNCHANGED <<adapter, parser, cli, noCache, anthropicKey, cache, stack, lastResult, trail>>

\* index.ts 428-454: the finally block, then the catch block when an
\* exception is in flight
EF_Finally ==
  /\ rpc = "finally"
  /\ browserOpen' = FALSE
  /\ testContext' = FALSE
  /\ registry' = EmptyHooks
  /\ fileTrail' = Append(fileTrail, FileEv("close", fileIdx, 0, "ok"))
  /\ fileEnds' = <<"passed">> \o (IF exc # NoExc THEN <<"failed">> ELSE <<>>)
  /\ exc' = NoExc
  /\ test' = NoTest
  /\ NextFile
  /\ launchFailed' = {}
  /\ UNCHANGED <<adapter, parser, cli, noCache, anthropicKey, cache, stack, lastResult, trail>>

\* ---------------------------------------------------------------- runTests
\* index.ts 469-472
RT_Start ==
  /\ rpc = "start"
  /\ fileIdx' = 1
  /\ rpc' = "load"
  /\ UNCHANGED <<adapter, parser, cli, noCache, anthropicKey, cache, testIdx, tests, test,
                 browserOpen, testContext, exc, stack, lastResult, trail,
                 fileEnds, registry, fileTrail, launchFailed>>

\* ------------------------------------------------------------- LLMAdapter
\* ClaudeResponse (part_001 9-15): an optional field that is not set reads
\* as undefined
Absent == "undefined"
Null == "null"

\* the tags of the switch in transformAndExecute (part_001 27-51)
Vocabulary ==
  { "key", "type", "mouse_move", "left_click", "left_click_drag",
    "right_click", "middle_click", "double_click", "screenshot",
    "cursor_position", "navigate", "sleep" }
\* tags the switch has no case for
OtherTags == {"scroll", ""}

Coordinates == {<<>>, <<"3", "4">>}
Texts == {Absent, "", "Return", "SelectAll", "Q", "q"}
Urls == {Absent, "", "http://localhost/login"}
Durations == {Absent, "0", "5"}

Responses ==
  [action : Vocabulary \cup OtherTags, coordinate : Coordinates,
   text : Texts, url : Urls, duration : Durations]
NoResponse ==
  [action |-> "", coordinate |-> <<>>, text |-> Absent, url |-> Absent,
   duration |-> Absent]

NoOutcome == [kind |-> "none", value |-> <<>>]
\* a BrowserActionResult, named by the operation that produced it
Returns(v) == [kind |-> "result", value |-> v]
Throws(msg) == [kind |-> "error", value |-> msg]
ResultOf(op) == <<"result of ", op>>
BackendError(op) == <<"backend error in ", op>>
Unsupported(tag) == <<"Unsupported action: ", tag>>

\* mutant: only the empty string is refused, an unset field passes
Falsy_OnlyEmpty(v) == v = ""

\* !response.text, !response.url (part_001 60, 72, 143)
Falsy(v) == v = Absent \/ v = ""

\* !response.coordinate (part_001 79, 95): an array is never falsy
NoCoordinate(c) == c = <<>>

\* text.toLowerCase() (part_001 61)
Lower(t) ==
  CASE t = "Return" -> "return"
    [] t = "SelectAll" -> "selectall"
    [] t = "Q" -> "q"
    [] OTHER -> t

\* actions.keyboardShortcuts: named keys and their synonyms; an entry is one
\* key or a list of keys
keyboardShortcuts ==
  [k \in {"return", "selectall"} |->
     IF k = "return" THEN [array |-> FALSE, key |-> "Enter"]
     ELSE [array |-> TRUE, keys |-> <<"Control", "a">>]]

\* mutant: the table is looked up with the text as given
ToPress_NoLower(text) ==
  IF text \in DOMAIN keyboardShortcuts /\ keyboardShortcuts[text].array
  THEN keyboardShortcuts[text].keys
  ELSE <<IF text \in DOMAIN keyboardShortcuts
         THEN keyboardShortcuts[text].key ELSE text>>

\* part_001 61-64
ToPress(text) ==
  LET t == Lower(text)
  IN IF t \in DOMAIN keyboardShortcuts /\ keyboardShortcuts[t].array
     THEN keyboardShortcuts[t].keys
     ELSE <<IF t \in DOMAIN keyboardShortcuts
            THEN keyboardShortcuts[t].key ELSE t>>

Call(op, args) == [op |-> op, args |-> args]

\* a handler that returns what one operation of this.browser returns; the
\* operation may fail
Invoke(op, args) ==
  /\ calls' = Append(calls, Call(op, args))
  /\ \E ok \in BOOLEAN :
       outcome' = IF ok THEN Returns(ResultOf(op)) ELSE Throws(BackendError(op))

\* a handler that throws before it reaches this.browser
Refuse(msg) ==
  /\ calls' = calls
  /\ outcome' = Throws(msg)

Dispatch(tag) ==
  /\ apc = "call"
  /\ response.action = tag
  /\ apc' = "done"
  /\ UNCHANGED <<runner, parser, cli, response>>

\* part_001 28-29, 57-67
handleKeyPress ==
  /\ Dispatch("key")
  /\ IF Falsy(response.text)
     THEN Refuse(<<"Text required for key press action.">>)
     ELSE Invoke("pressKey", ToPress(response.text))

\* part_001 30-31, 69-74
handleTypeText ==
  /\ Dispatch("type")
  /\ IF Falsy(response.text)
     THEN Refuse(<<"Text required for type action.">>)
     ELSE Invoke("type", <<response.text>>)

\* part_001 32-33, 76-83
handleMouseMove ==
  /\ Dispatch("mouse_move")
  /\ IF NoCoordinate(response.coordinate)
     THEN Refuse(<<"Coordinate required for mouse_move action.">>)
     ELSE Invoke("moveCursor", response.coordinate)

\* part_001 85-90: response.coordinate ?? [null, null]
ClickTarget(c) == IF NoCoordinate(c) THEN <<Null, Null>> ELSE c

\* part_001 34-35, 85-90
handleLeftClick ==
  /\ Dispatch("left_click")
  /\ Invoke("click", ClickTarget(response.coordinate))

\* part_001 36-37, 92-99
handleLeftClickDrag ==
  /\ Dispatch("left_click_drag")
  /\ IF NoCoordinate(response.coordinate)
     THEN Refuse(<<"Coordinate required for left_click_drag action.">>)
     ELSE Invoke("drag", response.coordinate)

\* part_001 38-39, 101-105
handleRightClick ==
  /\ Dispatch("right_click")
  /\ Refuse(<<"Right click not supported yet.">>)

\* part_001 40-41, 107-111
handleMiddleClick ==
  /\ Dispatch("middle_click")
  /\ Refuse(<<"Right click not supported yet.">>)

\* part_001 42-43, 113-120
handleDoubleClick ==
  /\ Dispatch("double_click")
  /\ Invoke("click", ClickTarget(response.coordinate))

\* part_001 44-45, 122-126
handleScreenshot ==
  /\ Dispatch("screenshot")
  /\ Invoke("screenshot", <<>>)

\* part_001 46-47, 128-138
handleCursorPosition ==
  /\ Dispatch("cursor_position")
  /\ calls' = Append(calls, Call("getState", <<>>))
  /\ \E ok \in BOOLEAN :
       outcome' = IF ok THEN Returns(<<"Cursor position is: ">> \o ResultOf("getState"))
                  ELSE Throws(BackendError("getState"))

\* part_001 48-49, 140-148
handleNavigate ==
  /\ Dispatch("navigate")
  /\ IF Falsy(response.url)
     THEN Refuse(<<"URL required for navigate action.">>)
     ELSE Invoke("navigate", <<response.url>>)

\* response.duration ?? null (part_001 153)
SleepArg(d) == IF d = Absent THEN Null ELSE d

\* part_001 50-53, 150-154: handleSleep is called, its promise is neither
\* awaited nor returned, and control falls through to the default case
handleSleep ==
  /\ Dispatch("sleep")
  /\ calls' = Append(calls, Call("sleep", <<SleepArg(response.duration)>>))
  /\ outcome' = Throws(Unsupported(response.action))

\* part_001 52-53: the default case
TE_Default ==
  /\ apc = "call"
  /\ response.action \notin Vocabulary
  /\ apc' = "done"
  /\ Refuse(Unsupported(response.action))
  /\ UNCHANGED <<runner, parser, cli, response>>

\* ------------------------------------------- the verdict in the final reply
\* the text of a reply, cut into tokens: the two braces, the members of a
\* verdict object ("status":"passed","reason":... and the same with failed)
\* and any other text without braces
Tokens == {"{", "}", "passed", "failed", "text"}
Replies == UNION { [1..n -> Tokens] : n \in 0..MaxReply }

AdapterIdle ==
  /\ response = NoResponse
  /\ apc = "off"
  /\ calls = <<>>
  /\ outcome = NoOutcome

ParserIdle ==
  /\ reply = <<>>
  /\ ppc = "off"
  /\ parsed = NoOutcome

\* text.includes('"status":') (index.ts 320-326)
HasStatus(text) ==
  \E k \in DOMAIN text : text[k] \in {"passed", "failed"}

\* text.match(/{[\s\S]*}/) (index.ts 332-334): from the leftmost opening
\* brace that has a closing brace after it to the last closing brace; the
\* empty sequence stands for no match
RegexMatch(text) ==
  LET opens == {i \in DOMAIN text :
                  text[i] = "{" /\ \E j \in DOMAIN text : j > i /\ text[j] = "}"}
  IN IF opens = {} THEN <<>>
     ELSE LET i == CHOOSE x \in opens : \A y \in opens : x <= y
              j == CHOOSE x \in DOMAIN text :
                     /\ text[x] = "}"
                     /\ \A y \in DOMAIN text : text[y] = "}" => y <= x
          IN SubSeq(text, i, j)

\* JSON.parse (index.ts 339) on the tokens: the objects are {} and the two
\* verdict objects; any other text is a syntax error
JSONParse(m) ==
  IF m = <<"{", "}">> THEN Returns(<<"undefined">>)
  ELSE IF Len(m) = 3 /\ m[1] = "{" /\ m[3] = "}" /\ m[2] \in {"passed", "failed"}
  THEN Returns(<<m[2]>>)
  ELSE Throws(<<"JSON.parse: unexpected token">>)

\* index.ts 320-330: the text block that holds the verdict
findBlock ==
  /\ ppc = "find"
  /\ IF HasStatus(reply)
     THEN ppc' = "match" /\ parsed' = parsed
     ELSE ppc' = "done" /\ parsed' = Throws(<<"No test result found in AI response">>)
  /\ UNCHANGED <<runner, adapter, cli, reply>>

\* index.ts 332-337
matchJson ==
  /\ ppc = "match"
  /\ IF RegexMatch(reply) # <<>>
     THEN ppc' = "parse" /\ parsed' = parsed
     ELSE ppc' = "done" /\ parsed' = Throws(<<"Invalid test result format">>)
  /\ UNCHANGED <<runner, adapter, cli, reply>>

\* index.ts 339
parseJson ==
  /\ ppc = "parse"
  /\ ppc' = "done"
  /\ parsed' = JSONParse(RegexMatch(reply))
  /\ UNCHANGED <<runner, adapter, cli, reply>>

\* ---------------------------------------------------------------- the CLI
\* the flags main() reads for the runner
Flags == {"--no-cache", "--debug-ai", "--headless"}
\* the entry points: cli/bin.ts and the later version of it
Entries == {"bin.ts", "part_003"}

NoExit == -1

CliIdle ==
  /\ cliArgs = {}
  /\ entryPoint = "none"
  /\ cpc = "off"
  /\ debugAI = FALSE
  /\ exitOnSuccess = TRUE
  /\ testsCount = 0
  /\ passedTestsCount = 0
  /\ outcomes = <<>>
  /\ exitCode = NoExit

\* index.ts 64-83: the constructor takes its options by position, each with
\* a default: cwd, exitOnSuccess, forceHeadless, targetUrl, debugAI, noCache
TestRunner(argv) ==
  [exitOnSuccess |-> IF Len(argv) >= 2 THEN argv[2] ELSE TRUE,
   forceHeadless |-> IF Len(argv) >= 3 THEN argv[3] ELSE FALSE,
   debugAI |-> IF Len(argv) >= 5 THEN argv[5] ELSE FALSE,
   noCache |-> IF Len(argv) >= 6 THEN argv[6] ELSE FALSE]

\* the arguments of new TestRunner(...) in main(): bin.ts 137-154 and
\* part_003 164-179
ConstructorArgs(e, a) ==
  LET headless == "--headless" \in a
      dbg == "--debug-ai" \in a
      nc == "--no-cache" \in a
  IN IF e = "bin.ts"
     THEN <<"cwd", TRUE, headless, "targetUrl", dbg, nc>>
     ELSE <<"cwd", TRUE, headless, "targetUrl", nc>>

\* what one executeTestFile call does, as the reporter sees it (index.ts
\* 369-455): the import throws; the launch fails; a beforeAll hook throws
\* before onFileStart; or onFileStart announces the tests, the verdicts of
\* the tests run are reported, and the file completes or something is thrown
\* after any number of tests
FileOutcomes ==
  { [kind |-> k, announced |-> 0, reported |-> <<>>] :
      k \in {"loadThrew", "launchFailed", "beforeAllThrew"} }
  \cup
  UNION { { [kind |-> "completed", announced |-> n, reported |-> r] :
              r \in [1..n -> {"passed", "failed"}] }
          \cup
          UNION { { [kind |-> "threw", announced |-> n, reported |-> r] :
                      r \in [1..m -> {"passed", "failed"}] } : m \in 0..n }
          : n \in 1..MaxTests }

\* TestReporter: onFileStart adds the announced tests, onTestEnd counts the
\* passed verdicts
PassedIn(r) == Cardinality({j \in DOMAIN r : r[j] = "passed"})
allTestsPassed == testsCount = passedTestsCount

CliFrame == <<adapter, parser, anthropicKey, cache, rpc, testIdx, tests, test,
              browserOpen, testContext, exc, stack, lastResult, trail, fileEnds,
              registry, fileTrail, launchFailed, cliArgs, entryPoint>>

\* main() up to the construction of the runner
CLI_Main ==
  /\ cpc = "main"
  /\ LET r == TestRunner(ConstructorArgs(entryPoint, cliArgs))
     IN /\ noCache' = r.noCache
        /\ debugAI' = r.debugAI
        /\ exitOnSuccess' = r.exitOnSuccess
  /\ cpc' = "runTests"
  /\ UNCHANGED <<CliFrame, fileIdx, testsCount, passedTestsCount, outcomes, exitCode>>

\* index.ts 457-469: the files are found (the list is not empty) and the run
\* is announced
CLI_RunTests ==
  /\ cpc = "runTests"
  /\ fileIdx' = 1
  /\ cpc' = "file"
  /\ UNCHANGED <<CliFrame, noCache, debugAI, exitOnSuccess, testsCount,
                 passedTestsCount, outcomes, exitCode>>

\* index.ts 470-472: one executeTestFile call of the loop
CLI_ExecuteTestFile ==
  /\ cpc = "file"
  /\ fileIdx <= NumFiles
  /\ \E o \in FileOutcomes :
       /\ testsCount' = testsCount + o.announced
       /\ passedTestsCount' = passedTestsCount + PassedIn(o.reported)
       /\ outcomes' = Append(outcomes, o)
  /\ fileIdx' = fileIdx + 1
  /\ UNCHANGED <<CliFrame, noCache, debugAI, exitOnSuccess, cpc, exitCode>>

\* index.ts 474-481: the end of runTests
CLI_Exit ==
  /\ cpc = "file"
  /\ fileIdx > NumFiles
  /\ exitCode' = IF exitOnSuccess /\ allTestsPassed THEN 0 ELSE 1
  /\ cpc' = "exited"
  /\ UNCHANGED <<CliFrame, noCache, debugAI, exitOnSuccess, fileIdx, testsCount,
                 passedTestsCount, outcomes>>

\* ------------------------------------------------------------ specification
Init ==
  /\ noCache \in BOOLEAN
  /\ anthropicKey \in BOOLEAN
  /\ cache \in InitialCaches
  /\ rpc = "start"
  /\ fileIdx = 0
  /\ testIdx = 0
  /\ tests = 0
  /\ test = NoTest
  /\ browserOpen = FALSE
  /\ testContext = FALSE
  /\ exc = NoExc
  /\ stack = <<>>
  /\ lastResult = NoResult
  /\ trail = <<>>
  /\ fileEnds = <<>>
  /\ registry = EmptyHooks
  /\ fileTrail = <<>>
  /\ launchFailed = {}
  /\ AdapterIdle
  /\ ParserIdle
  /\ CliIdle

Next ==
  \/ RT_Start
  \/ EF_Load
  \/ EF_Launch
  \/ EF_BeforeAll
  \/ EF_TestStart
  \/ ET_Begin
  \/ ET_CacheCheck
  \/ RC_Get
  \/ RC_Step
  \/ ET_ReplayAfter
  \/ ET_Fallback
  \/ ET_Before
  \/ ET_Process
  \/ ET_After
  \/ ET_Return
  \/ EF_TestEnd
  \/ EF_AfterAll
  \/ EF_Finally

Spec == Init /\ [][Next]_vars

\* the runner is not running while the adapter is exercised
RunnerIdle ==
  /\ noCache = FALSE
  /\ anthropicKey = TRUE
  /\ cache = [k \in 1..MaxTests |-> NoEntry]
  /\ rpc = "off"
  /\ fileIdx = 0
  /\ testIdx = 0
  /\ tests = 0
  /\ test = NoTest
  /\ browserOpen = TRUE
  /\ testContext = TRUE
  /\ exc = NoExc
  /\ stack = <<>>
  /\ lastResult = NoResult
  /\ trail = <<>>
  /\ fileEnds = <<>>
  /\ registry = EmptyHooks
  /\ fileTrail = <<>>
  /\ launchFailed = {}

\* transformAndExecute is called with one descriptor
AdapterInit ==
  /\ RunnerIdle
  /\ ParserIdle
  /\ CliIdle
  /\ response \in Responses
  /\ apc = "call"
  /\ calls = <<>>
  /\ outcome = NoOutcome

AdapterNext ==
  \/ handleKeyPress
  \/ handleTypeText
  \/ handleMouseMove
  \/ handleLeftClick
  \/ handleLeftClickDrag
  \/ handleRightClick
  \/ handleMiddleClick
  \/ handleDoubleClick
  \/ handleScreenshot
  \/ handleCursorPosition
  \/ handleNavigate
  \/ handleSleep
  \/ TE_Default

AdapterSpec == AdapterInit /\ [][AdapterNext]_vars

\* processAction has returned a final reply
ParseInit ==
  /\ RunnerIdle
  /\ AdapterIdle
  /\ CliIdle
  /\ reply \in Replies
  /\ ppc = "find"
  /\ parsed = NoOutcome

ParseNext ==
  \/ findBlock
  \/ matchJson
  \/ parseJson

ParseSpec == ParseInit /\ [][ParseNext]_vars

\* main() is started with some of the flags
CliInit ==
  /\ RunnerIdle
  /\ AdapterIdle
  /\ ParserIdle
  /\ cliArgs \in SUBSET Flags
  /\ entryPoint \in Entries
  /\ cpc = "main"
  /\ debugAI = FALSE
  /\ exitOnSuccess = TRUE
  /\ testsCount = 0
  /\ passedTestsCount = 0
  /\ outcomes = <<>>
  /\ exitCode = NoExit

CliNext ==
  \/ CLI_Main
  \/ CLI_RunTests
  \/ CLI_ExecuteTestFile
  \/ CLI_Exit

CliSpec == CliInit /\ [][CliNext]_vars



\* ------------------------------------------------------------------ claims
\* executeTestFile holds the verdict of the test it just ran
Returned == rpc = "testEnd"
Did(e) == \E k \in DOMAIN trail : trail[k].e = e
DidWith(e, s) == \E k \in DOMAIN trail : trail[k].e = e /\ trail[k].s = s
Times(e) == Cardinality({k \in DOMAIN trail : trail[k].e = e})
InReason(x) == \E k \in DOMAIN lastResult.reason : lastResult.reason[k] = x
AIReasonOf(s) == (CHOOSE v \in AIVerdicts : v.status = s).reason

\* C1: when the replay finds a step whose recorded fingerprint differs from
\* the live one, the cache entry is deleted, a fresh run is made, and the
\* verdict returned is the fresh run's.
C1_StaleTraceFallsBack ==
  (Returned /\ DidWith("fingerprint", "diff")) =>
    /\ Did("delete")
    /\ \E k \in DOMAIN trail :
         /\ trail[k].e = "process"
         /\ \A m \in DOMAIN trail : m > k => trail[m].e # "process"
         /\ lastResult.status = trail[k].s

\* C2: once a replay is abandoned and executeTest falls back, exactly one
\* processAction call is made for the test: never a second one, and one by
\* the time the verdict is returned (a failed before hook leaves none).
C2_ExactlyOneFreshRun ==
  Did("call") =>
    /\ Times("process") <= 1
    /\ (Returned /\ ~DidWith("before", "throw")) => Times("process") = 1

C4_ReplayPasses ==
  ( /\ Returned
    /\ DidWith("get", "steps")
    /\ \A k \in DOMAIN trail : trail[k].e = "fingerprint" => trail[k].s = "same"
    /\ ~DidWith("after", "throw") ) =>
      /\ lastResult = Result("passed", ReplayedReason, ZeroUsage)
      /\ ~Did("process")

C4_Witness ==
  /\ Returned
  /\ DidWith("get", "steps")
  /\ DidWith("fingerprint", "same")
  /\ \A k \in DOMAIN trail : trail[k].e = "fingerprint" => trail[k].s = "same"
  /\ DidWith("after", "ok")

\* the after hook threw right after the fresh run of the outermost call
\* returned a verdict of status s
AfterThrewOn(s) ==
  \E k \in DOMAIN trail :
    /\ k > 1
    /\ trail[k].e = "after" /\ trail[k].s = "throw" /\ trail[k].d = 1
    /\ trail[k - 1].e = "process" /\ trail[k - 1].s = s

\* C5, as stated: an after hook that throws after a passed AI verdict yields
\* a failed verdict whose reason holds an "AI:" and an "After:" fragment.
C5_Original ==
  (Returned /\ AfterThrewOn("passed")) =>
    /\ lastResult.status = "failed"
    /\ InReason("AI: ")
    /\ InReason(", After: ")

\* C5, amended: an after hook that throws after a fresh run yields a failed
\* verdict with the run's token usage; its reason is the hook's message
\* alone unless the AI verdict was failed, and only then the composed
\* "AI: <reason>, After: <message>".
C5_AfterFailureReason ==
  \A v \in AIVerdicts :
    (Returned /\ AfterThrewOn(v.status)) =>
      lastResult =
        Result("failed",
               IF v.status = "failed"
               THEN <<"AI: ">> \o AIReasonOf("failed") \o <<", After: ">> \o AfterMsg
               ELSE AfterMsg,
               RunUsage)

C5_Witness == Returned /\ AfterThrewOn("passed")

\* C6: when the before hook throws, executeTest returns failed with the
\* hook's message alone and zero token usage, and processAction is not
\* called for the test.
C6_BeforeFailureAlone ==
  (Returned /\ DidWith("before", "throw")) =>
    /\ lastResult = Result("failed", BeforeMsg, ZeroUsage)
    /\ ~Did("process")

\* C7, as stated: after a failed before hook the after hook of the test
\* still runs before the call returns.
C7_Original ==
  (Returned /\ test.hasAfter) =>
    \A k \in DOMAIN trail :
      (trail[k].e = "before" /\ trail[k].s = "throw") =>
        \E m \in DOMAIN trail :
          m > k /\ trail[m].e = "after" /\ trail[m].d = trail[k].d

\* C7, amended: the executeTest call whose before hook throws returns at
\* once with a failed verdict: it runs no after hook, and the verdict it
\* hands to executeTestFile has the before hook's message alone as reason.
C7_BeforeFailureReturns ==
  \A k \in DOMAIN trail :
    (trail[k].e = "before" /\ trail[k].s = "throw") =>
      /\ k < Len(trail) =>
           /\ trail[k + 1].e = "return"
           /\ trail[k + 1].d = trail[k].d
           /\ trail[k + 1].s = "failed"
      /\ (Returned /\ trail[k].d = 1) =>
           lastResult = Result("failed", BeforeMsg, ZeroUsage)

C7_Witness ==
  /\ Returned
  /\ test.hasAfter
  /\ \E k \in DOMAIN trail :
       trail[k].e = "before" /\ trail[k].s = "throw" /\ trail[k].d = 1

\* C8: for a test with a before hook, the hook has completed before the
\* first replayed step is executed and before any fresh run starts.
C8_BeforeHookFirst ==
  test.hasBefore =>
    \A k \in DOMAIN trail :
      trail[k].e \in {"exec", "process"} =>
        \E j \in 1..(k - 1) : trail[j].e = "before" /\ trail[j].s = "ok"

\* C9: a failure of the AI layer never leaves executeTest as an exception
\* (it becomes the test's failed verdict, and the file's loop goes on).
C9_AIFailureIsAVerdict == exc \notin AIErrors

\* C10: with noCache set the cache is never read, written or deleted, and
\* every non-direct test (with an API key and no failing before hook) takes
\* the fresh path.
C10_NoCacheNeverTouchesCache ==
  noCache =>
    /\ ~Did("get") /\ ~Did("set") /\ ~Did("delete")
    /\ (Returned /\ ~test.directExecution /\ anthropicKey
          /\ ~DidWith("before", "throw")) => Did("process")

\* C11: a test with the direct-execution flag makes executeTest call the
\* user callback and nothing else (no browser action, no model call, no
\* cache read, write or delete, no nested call); the verdict is passed with
\* zero token usage when the callback returns and failed with the
\* exception's message and zero token usage when it throws.
C11_DirectOnlyCallback ==
  (test.directExecution /\ rpc \in {"test", "testEnd"}) =>
    /\ Depth <= 1
    /\ \A k \in DOMAIN trail : trail[k].e \in {"callback", "return"}
    /\ Times("callback") <= 1
    /\ Returned =>
         /\ Times("callback") = 1
         /\ lastResult =
              IF DidWith("callback", "ok")
              THEN Result("passed", <<"Direct execution successful">>, ZeroUsage)
              ELSE Result("failed", CallbackMsg, ZeroUsage)

C11_Witness ==
  Returned /\ test.directExecution /\ DidWith("callback", "throw")

\* C12: a test's before hook or after hook that throws never leaves
\* executeTest as an exception; the test's verdict is then failed, and when
\* the AI verdict was failed too the reason is "AI: <reason>, After: <message>".
C12_HookFailureIsFailedVerdict ==
  /\ exc \notin {BeforeMsg[1], AfterMsg[1]}
  /\ (Returned /\ (DidWith("before", "throw") \/ DidWith("after", "throw"))) =>
       lastResult.status = "failed"
  /\ (Returned /\ AfterThrewOn("failed")) =>
       lastResult.reason =
         <<"AI: ">> \o AIReasonOf("failed") \o <<", After: ">> \o AfterMsg

\* C13: a cache.get that throws, at the hit check or in runCachedTest, is
\* handled as a miss: nothing escapes executeTest, the entry is deleted and
\* the test is run fresh (unless the before hook fails first).
C13_CacheReadErrorIsAMiss ==
  /\ exc # "cache read error"
  /\ (Returned /\ DidWith("get", "throw") /\ ~DidWith("before", "throw")) =>
       Did("delete") /\ Did("process")

\* the file-level hooks and the tests, as the file trail names them
HookKinds == {"beforeAll", "beforeEach", "afterEach", "afterAll"}
Ran(k) == fileTrail[k].e \in HookKinds \cup {"test"}
HookThrew == \E k \in DOMAIN fileTrail :
               fileTrail[k].e \in HookKinds /\ fileTrail[k].s = "throw"
Launches == {k \in DOMAIN fileTrail : fileTrail[k].e = "launch"}
InFile == rpc \in {"beforeAll", "loop", "test", "testEnd", "afterAll", "finally"}

\* C14: when the browser launch of a file fails, executeTestFile does
\* nothing more for it, no hook and no test of that file is ever executed,
\* and runTests goes on with the later files up to the last.
C14_LaunchFailureSkipsFile ==
  /\ (\E k \in Launches : fileTrail[k].s = "throw") =>
       Len(fileTrail) = 1 /\ rpc \in {"load", "done"}
  /\ \A k \in DOMAIN fileTrail : Ran(k) => fileTrail[k].o \notin launchFailed
  /\ rpc = "done" => fileIdx = NumFiles

\* C15: a file-level hook that throws is in flight only inside
\* executeTestFile, whose finally and catch blocks end it; runTests never
\* ends before the last file, and ends with no exception in flight.
C15_HookThrowStaysInFile ==
  /\ exc \in HookErrors => (rpc = "finally" /\ HookThrew)
  /\ rpc \notin {"finally", "test"} => exc = NoExc
  /\ rpc = "done" => fileIdx = NumFiles

C15_Witness == fileIdx = 2 /\ rpc = "load" /\ HookThrew

\* C16: a file's session is launched at most once, at the start, and is
\* open for each of its hooks and tests; it is closed before the next file
\* is loaded (so never two sessions are open); files are taken in list
\* order, and executeTest runs only for the one test of the loop.
C16_OneSessionPerFile ==
  /\ Cardinality(Launches) <= 1
  /\ \A k \in DOMAIN fileTrail :
       Ran(k) => /\ fileTrail[1].e = "launch" /\ fileTrail[1].s = "ok"
                 /\ fileTrail[k].e = "test" => fileTrail[k].o = fileTrail[1].o
                 /\ \A j \in 1..k : fileTrail[j].e # "close"
  /\ (InFile /\ fileTrail # <<>>) => fileTrail[1].o = fileIdx
  /\ (InFile /\ rpc # "finally") => browserOpen
  /\ ~InFile => ~browserOpen
  /\ Depth > 0 => (rpc = "test" /\ testIdx \in 1..tests)
  /\ InFile => \A k \in DOMAIN fileTrail :
                  fileTrail[k].e = "test" => fileTrail[k].t <= testIdx
  /\ fileIdx \in 0..NumFiles

C16_Witness ==
  /\ fileIdx = 2 /\ rpc = "testEnd" /\ testIdx = 2 /\ browserOpen
  /\ Cardinality({k \in DOMAIN fileTrail : fileTrail[k].e = "test"}) = 2

\* what a file whose hooks never throw runs, in order
OkRun(kind, fns, t) == [k \in 1..Len(fns) |-> FileEv(kind, fns[k], t, "ok")]
RECURSIVE TestRuns(_)
TestRuns(n) ==
  IF n = 0 THEN <<>>
  ELSE TestRuns(n - 1)
       \o OkRun("beforeEach", registry.beforeEachFns, n)
       \o <<FileEv("test", fileIdx, n, "ok")>>
       \o OkRun("afterEach", registry.afterEachFns, n)

\* C17: when the try block of a file ends with nothing thrown, what ran is:
\* every beforeAll hook once, then for each test in definition order every
\* beforeEach hook once, the test, every afterEach hook once, and after the
\* last test every afterAll hook once.
C17_HooksOncePerBoundary ==
  (rpc = "finally" /\ exc = NoExc) =>
    fileTrail =
      <<FileEv("launch", fileIdx, 0, "ok")>>
      \o OkRun("beforeAll", registry.beforeAllFns, 0)
      \o TestRuns(tests)
      \o OkRun("afterAll", registry.afterAllFns, 0)

C17_Witness ==
  /\ rpc = "finally" /\ exc = NoExc /\ tests = 2
  /\ registry.beforeAllFns # <<>> /\ registry.afterEachFns # <<>>

\* the descriptor lacks the field its action requires
LacksRequired ==
  \/ response.action \in {"mouse_move", "left_click_drag"} /\ response.coordinate = <<>>
  \/ response.action \in {"type", "key"} /\ response.text = Absent
  \/ response.action = "navigate" /\ response.url = Absent

MissingArgumentMessage ==
  CASE response.action = "key" -> <<"Text required for key press action.">>
    [] response.action = "type" -> <<"Text required for type action.">>
    [] response.action = "mouse_move" -> <<"Coordinate required for mouse_move action.">>
    [] response.action = "left_click_drag" ->
         <<"Coordinate required for left_click_drag action.">>
    [] response.action = "navigate" -> <<"URL required for navigate action.">>
    [] OTHER -> <<>>

\* C18: a descriptor without the field its action requires (coordinate for
\* mouse_move and left_click_drag, text for type and key, url for navigate)
\* makes transformAndExecute throw that action's "... required" error, and
\* no operation of the browser is invoked.
C18_MissingArgumentRefused ==
  (apc = "done" /\ LacksRequired) =>
    /\ outcome = Throws(MissingArgumentMessage)
    /\ calls = <<>>

C18_Witness ==
  apc = "done" /\ response.action = "navigate" /\ response.url = Absent

\* the operation of the browser each action stands for
OperationOf(tag) ==
  CASE tag = "key" -> "pressKey"
    [] tag = "type" -> "type"
    [] tag = "mouse_move" -> "moveCursor"
    [] tag \in {"left_click", "double_click"} -> "click"
    [] tag = "left_click_drag" -> "drag"
    [] tag = "screenshot" -> "screenshot"
    [] tag = "cursor_position" -> "getState"
    [] tag = "navigate" -> "navigate"
    [] tag = "sleep" -> "sleep"
    [] OTHER -> "none"

\* C19: a descriptor of the vocabulary that carries what its action needs
\* (the two clicks declared "not supported yet" set aside) has its operation
\* invoked, once, and transformAndExecute ends as that operation does: with
\* its result, or with its error; for sleep the operation is browser.sleep
\* with the duration, or null when there is none.
C19_VocabularyDispatched ==
  ( /\ apc = "done"
    /\ response.action \in Vocabulary \ {"right_click", "middle_click"}
    /\ ~(response.action \in {"mouse_move", "left_click_drag"}
           /\ response.coordinate = <<>>)
    /\ ~(response.action \in {"type", "key"} /\ response.text \in {Absent, ""})
    /\ ~(response.action = "navigate" /\ response.url \in {Absent, ""}) ) =>
      /\ Len(calls) = 1
      /\ calls[1].op = OperationOf(response.action)
      /\ response.action = "sleep" =>
           calls[1].args =
             <<IF response.duration = Absent THEN Null ELSE response.duration>>
      /\ \/ outcome.kind = "result"
         \/ outcome = Throws(BackendError(OperationOf(response.action)))

\* C20: transformAndExecute throws "Unsupported action: <tag>" exactly when
\* the tag is none of the twelve it knows, and then invokes no operation of
\* the browser.
C20_UnsupportedIffUnknown ==
  apc = "done" =>
    /\ (outcome = Throws(Unsupported(response.action)))
         <=> (response.action \notin Vocabulary)
    /\ response.action \notin Vocabulary => calls = <<>>

\* C21: for a key action with text t the keys given to browser.pressKey
\* are the entry of the synonym table for lowercase(t) (a list as it is, a
\* single key as a list of one) and else the list of lowercase(t) alone;
\* pressKey is the only operation invoked, once, with the keys already
\* translated.
C21_KeySynonyms ==
  (apc = "done" /\ response.action = "key" /\ response.text \notin {Absent, ""}) =>
    calls = << [op |-> "pressKey",
                args |-> CASE response.text = "Return" -> <<"Enter">>
                           [] response.text = "SelectAll" -> <<"Control", "a">>
                           [] response.text \in {"Q", "q"} -> <<"q">>] >>

C21_Witness ==
  apc = "done" /\ response.action = "key" /\ response.text = "Return"

\* C22: a test whose verdict is the replay's "all actions replayed" made no
\* model call, no cache.set and no cache.delete, has zero token usage, and
\* leaves the entry with its steps in the cache, so the next run of the same
\* test is a hit again.
C22_ReplayLeavesEntry ==
  (Returned /\ lastResult.reason = ReplayedReason) =>
    /\ lastResult = Result("passed", ReplayedReason, ZeroUsage)
    /\ ~Did("process") /\ ~Did("set") /\ ~Did("delete")
    /\ cache[CurKey].present /\ cache[CurKey].hasSteps

C22_Witness ==
  /\ Returned /\ fileIdx = 2
  /\ lastResult = Result("passed", ReplayedReason, ZeroUsage)
  /\ DidWith("fingerprint", "same")

\* the well-formed JSON objects among the token sequences
WellFormed(m) ==
  \/ m = <<"{", "}">>
  \/ Len(m) = 3 /\ m[1] = "{" /\ m[3] = "}" /\ m[2] \in {"passed", "failed"}

\* where the well-formed objects of the reply start and end
Objects ==
  { ij \in (DOMAIN reply) \X (DOMAIN reply) :
      ij[1] < ij[2] /\ WellFormed(SubSeq(reply, ij[1], ij[2])) }
FirstObject == CHOOSE ij \in Objects : \A o \in Objects : ij[1] <= o[1]

\* C23: when the first well-formed JSON object of the final reply is a
\* verdict object, the parse ends with that object's verdict, whatever text
\* and braces come before or after it.
C23_FirstObjectParsed ==
  ( /\ ppc = "done"
    /\ Objects # {}
    /\ FirstObject[2] = FirstObject[1] + 2 ) =>
      parsed = Returns(<<reply[FirstObject[1] + 1]>>)

\* a step that targets a point and carries a recorded fingerprint
Fingerprinted(step) == step.coordinate /\ step.componentStr # ""

\* C24: every replayed step that targets a point and carries a recorded
\* fingerprint is executed only right after its live fingerprint was
\* queried and found the same.
C24_PointerStepsVerified ==
  Depth >= 1 =>
    \A k \in DOMAIN trail :
      (trail[k].e = "exec" /\ Fingerprinted(stack[1].steps[trail[k].i])) =>
        /\ k > 1
        /\ trail[k - 1] = [trail[k] EXCEPT !.e = "fingerprint", !.s = "same"]

\* C25: the verdict executeTest returns has status passed or failed, a
\* reason and token-usage counters.
C25_VerdictIsPassedOrFailed ==
  Returned =>
    /\ lastResult.status \in {"passed", "failed"}
    /\ lastResult.reason \in Seq({lastResult.reason[k] : k \in DOMAIN lastResult.reason})
    /\ DOMAIN lastResult.tokenUsage = {"input", "output"}

\* the steps executed so far by runCachedTest, in the order of execution
Executed ==
  LET execs == SelectSeq(trail, LAMBDA ev : ev.e = "exec")
  IN [k \in DOMAIN execs |-> stack[1].steps[execs[k].i]]
\* the steps of the entry that are not screenshots
Recorded == SelectSeq(cache[CurKey].steps, LAMBDA st : st.action # "screenshot")

\* C26: while runCachedTest replays, the steps executed are a prefix of the
\* recorded steps without the screenshots, in the recorded order; when it
\* ends without a mismatch they are exactly those steps, each executed once.
C26_ReplayInRecordedOrder ==
  (Depth = 1 /\ Top.pc \in {"replayStep", "replayAfter"} /\ DidWith("get", "steps")) =>
    /\ Len(Executed) <= Len(Recorded)
    /\ Executed = SubSeq(Recorded, 1, Len(Executed))
    /\ (Top.pc = "replayAfter" /\ Top.result.status = "passed") =>
         Executed = Recorded

C26_Witness ==
  /\ Depth = 1 /\ Top.pc = "replayAfter" /\ Top.result.status = "passed"
  /\ Len(cache[CurKey].steps) > Len(Executed)
  /\ Len(Executed) = 2

\* C27: after a fingerprint mismatch at step i, runCachedTest executes
\* neither step i nor any later step: no step is executed after the
\* mismatch, and the steps executed before it are the steps before i.
C27_MismatchAborts ==
  \A k \in DOMAIN trail :
    (trail[k].e = "fingerprint" /\ trail[k].s = "diff") =>
      \A m \in DOMAIN trail :
        trail[m].e = "exec" => (m < k /\ trail[m].i < trail[k].i)

C27_Witness ==
  /\ Returned
  /\ \E k \in DOMAIN trail :
       /\ trail[k].e = "fingerprint" /\ trail[k].s = "diff"
       /\ trail[k].i < Len(Recorded)

\* C28: a replayed step that throws is followed by the next step of the
\* trace (or by the end of the replay when it was the last one), never by
\* the fallback, and a replay without mismatch ends passed all the same.
C28_StepErrorsSwallowed ==
  (Depth >= 1 /\ DidWith("exec", "throw")) =>
    /\ \A k \in DOMAIN trail :
         (trail[k].e = "exec" /\ trail[k].s = "throw" /\ k < Len(trail)) =>
           IF trail[k].i < Len(stack[1].steps)
           THEN /\ trail[k + 1].e \in {"fingerprint", "exec"}
                /\ trail[k + 1].i = trail[k].i + 1
           ELSE trail[k + 1].e \in {"after", "return"}
    /\ ( /\ stack[1].pc = "replayAfter"
         /\ ~DidWith("fingerprint", "diff") ) =>
           stack[1].result = Result("passed", ReplayedReason, ZeroUsage)

C28_Witness ==
  /\ Returned
  /\ DidWith("exec", "throw")
  /\ DidWith("exec", "ok")
  /\ lastResult = Result("passed", ReplayedReason, ZeroUsage)

\* a measure of the work an executeTest call has left, by its position: every
\* position weighs more than the ones that can follow it, the catch block
\* more than the call it makes and what comes after that call
Rank(f) ==
  LET whole == Len(cache[CurKey].steps)
  IN CASE f.pc = "ret" -> 1
       [] f.pc = "after" -> 2
       [] f.pc = "replayAfter" -> 2
       [] f.pc = "process" -> 3
       [] f.pc = "before" -> 4
       [] f.pc = "nested" -> 5
       [] f.pc = "cacheCheck" -> IF f.cfgNoCache THEN 5 ELSE whole + 15
       [] f.pc = "start" -> IF f.cfgNoCache THEN 6 ELSE whole + 16
       [] f.pc = "fallback" -> 12
       [] f.pc = "replayStep" -> 13 + (Len(f.steps) + 1 - f.stepIdx)
       [] f.pc = "replay" -> whole + 14

RECURSIVE WorkLeft(_)
WorkLeft(frames) ==
  IF frames = <<>> THEN 0 ELSE Rank(Head(frames)) + WorkLeft(Tail(frames))

\* what the trail shows of the nesting of executeTest calls
NestedCallIsFresh ==
  /\ Depth <= 2
  /\ Times("call") <= 1
  /\ \A k \in DOMAIN trail :
       /\ trail[k].d \in {1, 2}
       /\ trail[k].d = 2 =>
            trail[k].e \notin {"get", "fingerprint", "exec", "delete", "goto", "call"}

\* C29: executeTest calls nest at most one level deep and the nested call
\* never reads the cache, replays or falls back; every step of executeTest,
\* the nested call included, leaves strictly less work to do, so executeTest
\* ends after finitely many steps of its hooks, browser actions and model
\* calls.
C29_SingleRetry ==
  /\ []NestedCallIsFresh
  /\ [][Depth > 0 => (WorkLeft(stack') < WorkLeft(stack) /\ WorkLeft(stack') >= 0)]_vars

C29_Witness ==
  Depth = 2 /\ Top.pc = "ret" /\ Top.ret.status = "passed" /\ ~noCache

\* C30: the nested executeTest call comes right after the deletion of the
\* entry and the navigation of the page, in that order; the entry is gone
\* when the call starts, and no processAction call was made before it.
C30_ResetBeforeFreshRun ==
  \A k \in DOMAIN trail :
    trail[k].e = "call" =>
      /\ k > 2
      /\ trail[k - 2].e = "delete" /\ trail[k - 1].e = "goto"
      /\ \A j \in 1..k : trail[j].e # "process"
      /\ (k = Len(trail)) => (Depth = 2 /\ Top.pc = "start" /\ ~cache[CurKey].present)

C30_Witness ==
  Depth = 2 /\ Top.pc = "process" /\ DidWith("fingerprint", "throw")

\* C31: when the entry of the test exists but has no steps, a fresh run is
\* made and the verdict returned is the fresh run's.
C31_NoStepsRunsFresh ==
  (Returned /\ DidWith("get", "nosteps") /\ ~DidWith("after", "throw")) =>
    /\ Did("process")
    /\ lastResult.reason # NoStepsReason

\* the tests of the running file that were handed to executeTest
TestsRun == {fileTrail[k].t : k \in {j \in DOMAIN fileTrail : fileTrail[j].e = "test"}}
EachHookThrew ==
  \E k \in DOMAIN fileTrail :
    fileTrail[k].e \in {"beforeEach", "afterEach"} /\ fileTrail[k].s = "throw"

\* C32: when a beforeEach or afterEach hook threw in a file, by the time the
\* finally block is reached every later test of the file was executed and
\* every afterAll hook has run.
C32_EachHookFailureKeepsFile ==
  (rpc = "finally" /\ EachHookThrew) =>
    /\ \A k \in DOMAIN fileTrail :
         (fileTrail[k].e \in {"beforeEach", "afterEach"} /\ fileTrail[k].s = "throw") =>
           (fileTrail[k].t + 1)..tests \subseteq TestsRun
    /\ \A f \in Owners(registry) :
         \E k \in DOMAIN fileTrail : fileTrail[k].e = "afterAll" /\ fileTrail[k].o = f

\* C33: outside the execution of a file no session is open and the shared
\* test context is null, whatever was thrown in the file; a file whose
\* session was launched ends with the close of that session.
C33_SessionClosedContextReset ==
  /\ rpc \in {"load", "launch", "done"} => (~browserOpen /\ ~testContext)
  /\ ( /\ rpc \in {"load", "done"}
       /\ \E k \in Launches : fileTrail[k].s = "ok" ) =>
         fileTrail[Len(fileTrail)].e = "close"
  /\ rpc \in {"beforeAll", "loop", "test", "testEnd", "afterAll"} =>
       (browserOpen /\ testContext)

C33_Witness ==
  /\ rpc = "load" /\ fileIdx = 2
  /\ fileEnds = <<"passed", "failed">>
  /\ ~HookThrew
  /\ fileTrail # <<>> /\ fileTrail[Len(fileTrail)].e = "close"

\* C34: when a file is about to run (its import is done), the hook lists
\* hold only hooks that this file registered, and every hook that runs in a
\* file was registered by it.
C34_HooksBelongToFile ==
  /\ rpc \in {"launch", "beforeAll", "loop", "test", "testEnd", "afterAll"} =>
       Owners(registry) \subseteq {fileIdx}
  /\ InFile => \A k \in DOMAIN fileTrail :
                 fileTrail[k].e \in HookKinds => fileTrail[k].o = fileIdx

\* C35: when executeTestFile has returned for a file, exactly one file
\* result was reported for it: failed when something was thrown or the file
\* could not start, passed otherwise.
C35_OneFileResult ==
  ((rpc = "load" /\ fileIdx > 1) \/ rpc = "done") =>
    /\ Len(fileEnds) = 1
    /\ fileEnds[1] = "failed" <=>
         \/ HookThrew
         \/ fileTrail = <<>>
         \/ \E k \in Launches : fileTrail[k].s = "throw"

\* C36: in one executeTest call made by executeTestFile the test's before
\* hook is invoked at most once and its after hook at most once.
C36_TestHooksAtMostOnce ==
  Times("before") <= 1 /\ Times("after") <= 1

\* C37: the token usage returned with the verdict is the sum over the
\* processAction calls made for the test, and is zero exactly when there was
\* none.
C37_UsageIsTotalOfRuns ==
  Returned =>
    /\ lastResult.tokenUsage =
         [input |-> Times("process") * RunUsage.input,
          output |-> Times("process") * RunUsage.output]
    /\ (lastResult.tokenUsage = ZeroUsage) <=> ~Did("process")

\* a file that was executed to its end with every test passed
AllPassed(o) ==
  /\ o.kind = "completed"
  /\ \A j \in DOMAIN o.reported : o.reported[j] = "passed"

C39_FlagsReachTheirOptions ==
  cpc \in {"runTests", "file", "exited"} =>
    /\ noCache <=> "--no-cache" \in cliArgs
    /\ debugAI <=> "--debug-ai" \in cliArgs

====
